---------------------------- MODULE Spec2Model ----------------------------
(***************************************************************************)
(* A model of the scene manager of kolown2007/scene-manager:               *)
(*   SceneManager    src/src/SceneManager.ts                               *)
(*   SceneTransition src/unnamed/part_000                                  *)
(*   Scene           src/unnamed/part_001                                  *)
(*                                                                         *)
(* JavaScript runs every synchronous stretch of code to completion, so one *)
(* action is one public call up to its first await (or its end), or the    *)
(* continuation of a suspended switchTo after an awaited hook settles.     *)
(* Hooks are caller code: what they return, throw or reject with is an     *)
(* input of the action that invokes or resumes after them.                 *)
(***************************************************************************)
EXTENDS Integers, Sequences, FiniteSets, TLC

\* ------------------------------------------------------------------ bounds

\* the clock (Date.now(), in ms) stops advancing here
MaxTime == 1000
\* switchTo calls (to a registered scene other than the current one) in a run
MaxSwitches == 2
\* scene objects the caller constructs in a run
MaxScenes == 2
\* start(), update() and complete() calls made on a SceneTransition used on its own
MaxOps == 4

\* --------------------------------------------------------- program constants

\* SceneManager option defaultTransitionDuration
DefaultTransitionDuration == 1000
\* SceneTransition option duration, and its fallback in update()
DefaultDuration == 1000

\* ------------------------------------------------------------------ inputs

\* the scene objects a caller may construct; a2 is a second object named "a"
Insts == {"a1", "a2", "b1"}
Names == {"a", "b"}
\* a name no scene object carries
GhostName == "zz"
Null == "null"
\* a number-typed option the caller left out (duration?: number)
Undefined == -1

\* how far the clock moves between two calls
TickSteps == {500}
\* the deltaTime argument of update(); Undefined stands for a call without it
DeltaChoices == {16, Undefined}
\* the easing functions a caller passes to switchTo: none (the linear default),
\* t/2 (which ends below 1) and one that is 1 from t = 1/2 on
EasingChoices == {"undefined", "half", "early"}
\* the transitionOptions argument of switchTo; NoOptions is a call without it
NoOptions == [given |-> FALSE, duration |-> Undefined, easing |-> "undefined", onComplete |-> FALSE]
Options(d, f, cb) == [given |-> TRUE, duration |-> d, easing |-> f, onComplete |-> cb]
OptionChoices ==
  {NoOptions,
   Options(500, "half", TRUE),
   Options(0, "early", FALSE)}

\* Scene.name (src/unnamed/part_001:4,8-10): fixed at construction
SceneName(s) ==
  CASE s = "a1" -> "a"
    [] s = "a2" -> "a"
    [] s = "b1" -> "b"

SceneStates == {"inactive", "entering", "active", "exiting", "paused"}

\* the keys and values a caller stores with Scene.setData
DataKeys == {"score"}
DataValues == {100, 5}

\* the options a caller constructs a SceneTransition of its own with
LoneDurations == {Undefined, 0, 500, 1000}
LoneEasings == {"undefined", "easeIn"}

\* SceneRegistry: the type tags, the scene classes and the constructor
\* arguments a caller uses; GhostType is a tag nobody registers
Types == {"mock", "menu"}
GhostType == "unregistered"
Ctors == {"MockScene", "MenuScene", "GameScene"}
CreateNames == {"testScene", "other"}
CreateArgs == {<<>>, <<"extraData">>}

VARIABLES
  scenes,            \* SceneManager.scenes: name -> scene object, Null when absent
  currentScene,      \* SceneManager.currentScene
  previousScene,     \* SceneManager.previousScene
  activeTransition,  \* SceneManager.activeTransition (the SceneTransition object)
  lastUpdateTime,    \* SceneManager.lastUpdateTime
  enableTransitions, \* SceneManager.options.enableTransitions
  state,             \* Scene.state of every scene object
  calls,             \* the suspended switchTo calls, by their number
  owned,             \* the scene objects the caller constructed
  now,               \* Date.now()
  issued,            \* the switchTo calls made so far that went past line 49
  events,            \* what the last step did that the caller can see:
                     \* the hooks it invoked and the promises it settled, in order
  data,              \* Scene.data of every scene object
  transition,        \* a SceneTransition object the caller drives itself
  callback,          \* whether that object's options carry an onComplete
  returned,          \* what its last update() returned
  completions,       \* how often its onComplete was invoked
  deactivations,     \* how often its isRunning went from true to false
  history,           \* the start/update/complete calls made on it, in order
  registry,          \* SceneRegistry.registry: type -> constructor, Null when absent
  created            \* what the last SceneRegistry.create returned or threw

\* the SceneTransition object used on its own, and what was observed of it
lone == <<transition, callback, returned, completions, deactivations, history>>
\* the SceneRegistry object, and what was observed of it
registrar == <<registry, created>>

vars == <<scenes, currentScene, previousScene, activeTransition, lastUpdateTime,
          enableTransitions, state, calls, owned, now, issued, events,
          data, lone, registrar>>

\* ------------------------------------------------------------ observations

\* one hook invocation: how it returned ("returns" or "throws"), and for
\* onUpdate the deltaTime it was given
Hook(h, s, how, n) == [ev |-> h, scene |-> s, info |-> how, n |-> n]
\* the promise of switchTo call number c settles (0: a call that ended at
\* line 44 or 48 and has no number)
Resolve(c, s) == [ev |-> "resolve", scene |-> s, info |-> "ok", n |-> c]
Reject(c, s, why) == [ev |-> "reject", scene |-> s, info |-> why, n |-> c]

HookEvents == {"onEnter", "onExit", "onUpdate", "onPause", "onResume"}
\* the step that left the events es invoked hook h (of scene s)
InvokedIn(es, h) == \E i \in 1..Len(es) : es[i].ev = h
InvokedOn(es, h, s) == \E i \in 1..Len(es) : es[i].ev = h /\ es[i].scene = s
NoHookIn(es) == \A i \in 1..Len(es) : es[i].ev \notin HookEvents
\* the invocations of hook h among the events es
Invocations(es, h) == SelectSeq(es, LAMBDA e : e.ev = h)
\* the step that left the events es resolved the promise of call c
ResolvedIn(es, c) == \E i \in 1..Len(es) : es[i].ev = "resolve" /\ es[i].n = c

\* --------------------------------------------------------------- the Scene

\* Scene.setState (src/unnamed/part_001:32-34): an unconditional overwrite
SetState(st, s, v) == [st EXCEPT ![s] = v]
\* Scene.isActive / isPaused
IsActive(st, s) == st[s] = "active"
IsPaused(st, s) == st[s] = "paused"

\* --------------------------------------------------------- SceneTransition

\* progress values are exact fractions <<numerator, denominator>>
AtLeastOne(p) == p[1] >= p[2]
One == <<1, 1>>

\* the easing functions a caller passes; the three presets are the statics of
\* SceneTransition, "undefined" leaves the constructor's linear default in
\* place, "half" is t/2 (f(1) # 1) and "early" is 1 from t = 1/2 on.
easeInOut(p) ==
  IF 2 * p[1] < p[2]
    THEN <<2 * p[1] * p[1], p[2] * p[2]>>
    ELSE <<(4 * p[2] - 2 * p[1]) * p[1] - p[2] * p[2], p[2] * p[2]>>
easeIn(p) == <<p[1] * p[1], p[2] * p[2]>>
easeOut(p) == <<p[1] * (2 * p[2] - p[1]), p[2] * p[2]>>
Easing(f, p) ==
  CASE f = "undefined" -> p
    [] f = "easeIn" -> easeIn(p)
    [] f = "easeOut" -> easeOut(p)
    [] f = "easeInOut" -> easeInOut(p)
    [] f = "half" -> <<p[1], 2 * p[2]>>
    [] f = "early" -> IF 2 * p[1] >= p[2] THEN One ELSE <<0, 1>>

\* the fraction p is the number e / d
IsRatio(p, e, d) == p[1] * d = e * p[2]

\* the easing f maps 0 to 0 and 1 to 1
FixesEnds(f) ==
  /\ Easing(f, <<0, 1>>)[1] = 0
  /\ IsRatio(Easing(f, One), 1, 1)

\* no SceneTransition object
NoTransition ==
  [ref |-> FALSE, isRunning |-> FALSE, done |-> FALSE, startTime |-> 0,
   duration |-> Undefined, easing |-> "undefined", call |-> 0]

\* new SceneTransition(options): the object before start(). call is the
\* switchTo promise its onComplete closure resolves; done records that
\* complete() ran.
NewTransition(duration, easing, c) ==
  [ref |-> TRUE, isRunning |-> FALSE, done |-> FALSE, startTime |-> 0,
   duration |-> duration, easing |-> easing, call |-> c]

\* SceneTransition.start
Start(t, time) == [t EXCEPT !.startTime = time, !.isRunning = TRUE]

\* this.options.duration || 1000: undefined and 0 fall back
EffectiveDuration(t) ==
  IF t.duration = Undefined \/ t.duration = 0 THEN DefaultDuration ELSE t.duration

\* a progress measured from time 0 instead of from start()
RawProgress_FromZero(t, time) ==
  LET d == EffectiveDuration(t)
  IN IF time >= d THEN One ELSE <<time, d>>

\* Math.min(elapsed / duration, 1)
RawProgress(t, time) ==
  LET elapsed == time - t.startTime
      d == EffectiveDuration(t)
  IN IF elapsed >= d THEN One ELSE <<elapsed, d>>

\* an update that completes on the eased progress instead of the raw one
UpdateCompletes_OnEased(t, time) ==
  t.isRunning /\ AtLeastOne(Easing(t.easing, RawProgress(t, time)))

\* SceneTransition.update: the value returned, and whether complete() runs
UpdateCompletes(t, time) == t.isRunning /\ AtLeastOne(RawProgress(t, time))
UpdateProgress(t, time) ==
  IF ~t.isRunning THEN One ELSE Easing(t.easing, RawProgress(t, time))

\* a complete() that forgets to clear isRunning
Complete_StaysRunning(t) == [t EXCEPT !.done = TRUE]

\* SceneTransition.complete, up to the call of options.onComplete
Complete(t) == [t EXCEPT !.isRunning = FALSE, !.done = TRUE]

\* the onComplete the manager installs (SceneManager.ts:72-75), as far as the
\* manager's field goes: this.activeTransition = null
OnComplete(t) == NoTransition

\* --------------------------------------------------------------- the calls

NoCall == [pc |-> "free", newScene |-> Null, onComplete |-> FALSE]
Pending(c) == calls[c].pc # "free"
NoPending == \A c \in 1..MaxSwitches : ~Pending(c)

\* no SceneRegistry.create call was made yet
NothingCreated == [result |-> "none"]

TypeOK ==
  /\ scenes \in [Names -> Insts \cup {Null}]
  /\ currentScene \in Insts \cup {Null}
  /\ previousScene \in Insts \cup {Null}
  /\ state \in [Insts -> SceneStates]
  /\ enableTransitions \in BOOLEAN
  /\ now \in 0..MaxTime
  /\ lastUpdateTime \in 0..MaxTime

\* the manager after new SceneManager(options), the scene objects after
\* new Scene(name), the clock at the moment of construction. The objects a1
\* and a2 are interchangeable, so a1 is always among those constructed.
Init ==
  /\ scenes = [n \in Names |-> Null]
  /\ currentScene = Null
  /\ previousScene = Null
  /\ activeTransition = NoTransition
  /\ lastUpdateTime = 0
  /\ enableTransitions \in BOOLEAN
  /\ state = [s \in Insts |-> "inactive"]
  /\ calls = [c \in 1..MaxSwitches |-> NoCall]
  /\ owned \in {S \in SUBSET Insts : "a1" \in S /\ Cardinality(S) = MaxScenes}
  /\ now = 0
  /\ issued = 0
  /\ events = <<>>
  /\ data = [s \in Insts |-> [k \in DataKeys |-> Undefined]]
  /\ transition = NoTransition
  /\ callback = FALSE
  /\ returned = <<0, 1>>
  /\ completions = 0
  /\ deactivations = 0
  /\ history = <<>>
  /\ registry = [t \in Types |-> Null]
  /\ created = NothingCreated

\* ------------------------------------------------------------ the operations

\* time passes between two calls
Tick ==
  /\ \E d \in TickSteps : now + d <= MaxTime /\ now' = now + d
  /\ events' = <<>>
  /\ UNCHANGED <<scenes, currentScene, previousScene, activeTransition,
                 lastUpdateTime, enableTransitions, state, calls, owned, data, lone, registrar, issued>>

\* addScene(scene)
AddScene(s) ==
  /\ scenes' = [scenes EXCEPT ![SceneName(s)] = s]
  /\ events' = <<>>
  /\ UNCHANGED <<currentScene, previousScene, activeTransition, lastUpdateTime,
                 enableTransitions, state, calls, owned, data, lone, registrar, now, issued>>

\* the scenes map read with a name that may be no key of it
Lookup(n) == IF n \in Names THEN scenes[n] ELSE Null

\* a removeScene that forgets to clear currentScene
RemoveScene_KeepsCurrent(n) ==
  /\ scenes' = IF n \in Names THEN [scenes EXCEPT ![n] = Null] ELSE scenes
  /\ events' = <<>>
  /\ UNCHANGED <<currentScene, previousScene, activeTransition, lastUpdateTime,
                 enableTransitions, state, calls, owned, data, lone, registrar, now, issued>>

\* a removeScene that also empties the data of the scene it removes
RemoveScene_ClearsData(n) ==
  /\ currentScene' =
       IF Lookup(n) # Null /\ Lookup(n) = currentScene THEN Null ELSE currentScene
  /\ scenes' = IF n \in Names THEN [scenes EXCEPT ![n] = Null] ELSE scenes
  /\ data' = IF Lookup(n) # Null
               THEN [data EXCEPT ![Lookup(n)] = [k \in DataKeys |-> Undefined]]
               ELSE data
  /\ events' = <<>>
  /\ UNCHANGED <<previousScene, activeTransition, lastUpdateTime,
                 enableTransitions, state, calls, owned, lone, registrar, now, issued>>

\* a removeScene that keeps the entry of the current scene
RemoveScene_SparesCurrent(n) ==
  /\ currentScene' =
       IF Lookup(n) # Null /\ Lookup(n) = currentScene THEN Null ELSE currentScene
  /\ scenes' = IF n \in Names /\ Lookup(n) # currentScene
                 THEN [scenes EXCEPT ![n] = Null] ELSE scenes
  /\ events' = <<>>
  /\ UNCHANGED <<previousScene, activeTransition, lastUpdateTime,
                 enableTransitions, state, calls, owned, data, lone, registrar, now, issued>>

\* removeScene(sceneName). scenes.get of an absent name is undefined, which is
\* never === currentScene (null or a scene)
RemoveScene(n) ==
  /\ currentScene' =
       IF Lookup(n) # Null /\ Lookup(n) = currentScene THEN Null ELSE currentScene
  /\ scenes' = IF n \in Names THEN [scenes EXCEPT ![n] = Null] ELSE scenes
  /\ events' = <<>>
  /\ UNCHANGED <<previousScene, activeTransition, lastUpdateTime,
                 enableTransitions, state, calls, owned, data, lone, registrar, now, issued>>

\* hasScene(sceneName): this.scenes.has(sceneName)
HasScene(n) == Lookup(n) # Null
\* getScenes(): the keys of the scenes map (a Map holds each key once; the
\* order of the keys is not modelled)
GetScenes == {n \in Names : scenes[n] # Null}

\* a pauseCurrentScene that also forgets the previous scene
PauseCurrentScene_ForgetsPrevious ==
  /\ IF currentScene # Null /\ IsActive(state, currentScene)
       THEN /\ state' = SetState(state, currentScene, "paused")
            /\ events' = <<Hook("onPause", currentScene, "returns", 0)>>
            /\ previousScene' = Null
       ELSE /\ state' = state
            /\ events' = <<>>
            /\ previousScene' = previousScene
  /\ UNCHANGED <<scenes, currentScene, activeTransition,
                 lastUpdateTime, enableTransitions, calls, owned, data, lone, registrar, now, issued>>

\* pauseCurrentScene()
PauseCurrentScene ==
  /\ IF currentScene # Null /\ IsActive(state, currentScene)
       THEN /\ state' = SetState(state, currentScene, "paused")
            /\ events' = <<Hook("onPause", currentScene, "returns", 0)>>
       ELSE /\ state' = state
            /\ events' = <<>>
  /\ UNCHANGED <<scenes, currentScene, previousScene, activeTransition,
                 lastUpdateTime, enableTransitions, calls, owned, data, lone, registrar, now, issued>>

\* a resumeCurrentScene that resumes a current scene from any state
ResumeCurrentScene_FromAnyState ==
  /\ IF currentScene # Null /\ ~IsActive(state, currentScene)
       THEN /\ state' = SetState(state, currentScene, "active")
            /\ events' = <<Hook("onResume", currentScene, "returns", 0)>>
       ELSE /\ state' = state
            /\ events' = <<>>
  /\ UNCHANGED <<scenes, currentScene, previousScene, activeTransition,
                 lastUpdateTime, enableTransitions, calls, owned, data, lone, registrar, now, issued>>

\* a resumeCurrentScene that flips the state and forgets the hook
ResumeCurrentScene_NoHook ==
  /\ IF currentScene # Null /\ IsPaused(state, currentScene)
       THEN state' = SetState(state, currentScene, "active")
       ELSE state' = state
  /\ events' = <<>>
  /\ UNCHANGED <<scenes, currentScene, previousScene, activeTransition,
                 lastUpdateTime, enableTransitions, calls, owned, data, lone, registrar, now, issued>>

\* resumeCurrentScene()
ResumeCurrentScene ==
  /\ IF currentScene # Null /\ IsPaused(state, currentScene)
       THEN /\ state' = SetState(state, currentScene, "active")
            /\ events' = <<Hook("onResume", currentScene, "returns", 0)>>
       ELSE /\ state' = state
            /\ events' = <<>>
  /\ UNCHANGED <<scenes, currentScene, previousScene, activeTransition,
                 lastUpdateTime, enableTransitions, calls, owned, data, lone, registrar, now, issued>>

\* ------------------------------------------------------------------ switchTo

HookOutcomes == {"returns", "throws"}
AwaitOutcomes == {"fulfilled", "rejected"}

\* a switchTo that records previousScene before it looks the name up
SwitchToNotFound_RecordsPrevious(n) ==
  /\ Lookup(n) = Null
  /\ previousScene' = currentScene
  /\ events' = <<Reject(0, Null, "notFound")>>
  /\ UNCHANGED <<scenes, currentScene, activeTransition,
                 lastUpdateTime, enableTransitions, state, calls, owned, data, lone, registrar, now, issued>>

\* switchTo, lines 42-45: the name is not a key of scenes
SwitchToNotFound(n) ==
  /\ Lookup(n) = Null
  /\ events' = <<Reject(0, Null, "notFound")>>
  /\ UNCHANGED <<scenes, currentScene, previousScene, activeTransition,
                 lastUpdateTime, enableTransitions, state, calls, owned, data, lone, registrar, now, issued>>

\* a switchTo without the comparison of line 47: the current scene is entered again
SwitchToSame_Reenters(n) ==
  /\ Lookup(n) # Null
  /\ currentScene = Lookup(n)
  /\ state' = SetState(state, currentScene, "entering")
  /\ events' = <<Hook("onEnter", currentScene, "returns", 0), Resolve(0, Lookup(n))>>
  /\ UNCHANGED <<scenes, currentScene, previousScene, activeTransition,
                 lastUpdateTime, enableTransitions, calls, owned, data, lone, registrar, now, issued>>

\* switchTo, lines 47-49: already on this scene
SwitchToSame(n) ==
  /\ Lookup(n) # Null
  /\ currentScene = Lookup(n)
  /\ events' = <<Resolve(0, Lookup(n))>>
  /\ UNCHANGED <<scenes, currentScene, previousScene, activeTransition,
                 lastUpdateTime, enableTransitions, state, calls, owned, data, lone, registrar, now, issued>>

\* a switchTo that takes the transition path only away from a current scene
TakesTransitionPath_NeedsCurrent(o) == enableTransitions /\ currentScene # Null

\* switchTo, line 53: which path the call takes
TakesTransitionPath(o) == enableTransitions /\ (currentScene # Null \/ o.given)

\* transitionToScene, lines 64-67: { duration: default, ...transitionOptions }
MergedDuration(o) ==
  IF o.given /\ o.duration # Undefined THEN o.duration ELSE DefaultTransitionDuration

\* a transitionToScene that enters the new scene before it exits the old one
SwitchToTransition_EntersFirst(n, o, xo, eo) ==
  LET newScene == Lookup(n)
      c == issued + 1
      exits == currentScene # Null
      st1 == SetState(state, newScene, "entering")
      ev1 == <<Hook("onEnter", newScene, eo, 0)>>
      st2 == IF exits THEN SetState(st1, currentScene, "exiting") ELSE st1
      ev2 == IF exits THEN ev1 \o <<Hook("onExit", currentScene, xo, 0)>> ELSE ev1
  IN /\ newScene # Null
     /\ currentScene # newScene
     /\ TakesTransitionPath(o)
     /\ issued < MaxSwitches
     /\ issued' = issued + 1
     /\ exits \/ xo = "returns"
     /\ eo = "returns" \/ xo = "returns"
     /\ previousScene' = currentScene
     /\ IF eo = "throws"
          THEN /\ activeTransition' = NewTransition(MergedDuration(o), o.easing, 0)
               /\ state' = st1
               /\ events' = ev1 \o <<Reject(c, newScene, "hook")>>
               /\ UNCHANGED <<currentScene, calls>>
          ELSE IF exits /\ xo = "throws"
          THEN /\ activeTransition' = NewTransition(MergedDuration(o), o.easing, 0)
               /\ state' = st2
               /\ events' = ev2 \o <<Reject(c, newScene, "hook")>>
               /\ UNCHANGED <<currentScene, calls>>
          ELSE /\ activeTransition' =
                    Start(NewTransition(MergedDuration(o), o.easing, c), now)
               /\ state' = st2
               /\ currentScene' = newScene
               /\ calls' = [calls EXCEPT ![c] =
                              [pc |-> "awaitTransition", newScene |-> newScene,
                               onComplete |-> o.given /\ o.onComplete]]
               /\ events' = ev2
     /\ UNCHANGED <<scenes, lastUpdateTime, enableTransitions, owned, data, lone, registrar, now>>

\* switchTo on the transition path (lines 51-54 and transitionToScene). The
\* hooks run inside the executor of new Promise: a hook that throws ends the
\* executor there and rejects the promise; what a hook returns is dropped.
\* The onComplete of transitionOptions is overwritten by the manager's own.
SwitchToTransition(n, o, xo, eo) ==
  LET newScene == Lookup(n)
      c == issued + 1
      exits == currentScene # Null
      st1 == IF exits THEN SetState(state, currentScene, "exiting") ELSE state
      ev1 == IF exits THEN <<Hook("onExit", currentScene, xo, 0)>> ELSE <<>>
      st2 == SetState(st1, newScene, "entering")
      ev2 == ev1 \o <<Hook("onEnter", newScene, eo, 0)>>
  IN /\ newScene # Null
     /\ currentScene # newScene
     /\ TakesTransitionPath(o)
     /\ issued < MaxSwitches
     /\ issued' = issued + 1
     /\ exits \/ xo = "returns"
     /\ xo = "returns" \/ eo = "returns"
     /\ previousScene' = currentScene
     /\ IF exits /\ xo = "throws"
          THEN /\ activeTransition' = NewTransition(MergedDuration(o), o.easing, 0)
               /\ state' = st1
               /\ events' = ev1 \o <<Reject(c, newScene, "hook")>>
               /\ UNCHANGED <<currentScene, calls>>
          ELSE IF eo = "throws"
          THEN /\ activeTransition' = NewTransition(MergedDuration(o), o.easing, 0)
               /\ state' = st2
               /\ events' = ev2 \o <<Reject(c, newScene, "hook")>>
               /\ UNCHANGED <<currentScene, calls>>
          ELSE /\ activeTransition' =
                    Start(NewTransition(MergedDuration(o), o.easing, c), now)
               /\ state' = st2
               /\ currentScene' = newScene
               /\ calls' = [calls EXCEPT ![c] =
                              [pc |-> "awaitTransition", newScene |-> newScene,
                               onComplete |-> o.given /\ o.onComplete]]
               /\ events' = ev2
     /\ UNCHANGED <<scenes, lastUpdateTime, enableTransitions, owned, data, lone, registrar, now>>

\* directSwitchToScene, lines 101-104 up to the await of onEnter: call c
\* enters newScene, the scene states being st. A hook that throws rejects
\* the promise.
EnterNewScene(c, st, newScene, eo) ==
  /\ currentScene' = newScene
  /\ state' = SetState(st, newScene, "entering")
  /\ IF eo = "throws"
       THEN /\ events' = <<Hook("onEnter", newScene, eo, 0),
                           Reject(c, newScene, "hook")>>
            /\ calls' = [calls EXCEPT ![c] = NoCall]
       ELSE /\ events' = <<Hook("onEnter", newScene, eo, 0)>>
            /\ calls' = [calls EXCEPT ![c] =
                           [pc |-> "awaitEnter", newScene |-> newScene,
                            onComplete |-> FALSE]]

\* switchTo on the direct path (lines 51-56 and directSwitchToScene up to its
\* first await)
SwitchToDirect(n, o, xo, eo) ==
  LET newScene == Lookup(n)
      c == issued + 1
  IN /\ newScene # Null
     /\ currentScene # newScene
     /\ ~TakesTransitionPath(o)
     /\ issued < MaxSwitches
     /\ issued' = issued + 1
     /\ previousScene' = currentScene
     /\ IF currentScene # Null
          THEN /\ eo = "returns"
               /\ state' = SetState(state, currentScene, "exiting")
               /\ UNCHANGED currentScene
               /\ IF xo = "throws"
                    THEN /\ events' = <<Hook("onExit", currentScene, xo, 0),
                                        Reject(c, newScene, "hook")>>
                         /\ UNCHANGED calls
                    ELSE /\ events' = <<Hook("onExit", currentScene, xo, 0)>>
                         /\ calls' = [calls EXCEPT ![c] =
                                        [pc |-> "awaitExit", newScene |-> newScene,
                                         onComplete |-> FALSE]]
          ELSE /\ xo = "returns"
               /\ EnterNewScene(c, state, newScene, eo)
     /\ UNCHANGED <<scenes, activeTransition, lastUpdateTime, enableTransitions, owned, data, lone, registrar, now>>

\* a directSwitchToScene without line 98: the old scene stays 'exiting'
ResumeAfterExit_StaysExiting(c, ao, eo) ==
  /\ calls[c].pc = "awaitExit"
  /\ IF ao = "rejected"
       THEN /\ eo = "returns"
            /\ events' = <<Reject(c, calls[c].newScene, "hook")>>
            /\ calls' = [calls EXCEPT ![c] = NoCall]
            /\ UNCHANGED <<currentScene, state>>
       ELSE EnterNewScene(c, state, calls[c].newScene, eo)
  /\ UNCHANGED <<scenes, previousScene, activeTransition, lastUpdateTime,
                 enableTransitions, owned, data, lone, registrar, now, issued>>

\* directSwitchToScene after await this.currentScene.onExit() (lines 97-104):
\* this.currentScene is read again, and is null when the scene was removed
\* in the meantime (setState on null throws a TypeError)
ResumeAfterExit(c, ao, eo) ==
  /\ calls[c].pc = "awaitExit"
  /\ IF ao = "rejected"
       THEN /\ eo = "returns"
            /\ events' = <<Reject(c, calls[c].newScene, "hook")>>
            /\ calls' = [calls EXCEPT ![c] = NoCall]
            /\ UNCHANGED <<currentScene, state>>
       ELSE IF currentScene = Null
       THEN /\ eo = "returns"
            /\ events' = <<Reject(c, calls[c].newScene, "typeError")>>
            /\ calls' = [calls EXCEPT ![c] = NoCall]
            /\ UNCHANGED <<currentScene, state>>
       ELSE EnterNewScene(c, SetState(state, currentScene, "inactive"),
                          calls[c].newScene, eo)
  /\ UNCHANGED <<scenes, previousScene, activeTransition, lastUpdateTime,
                 enableTransitions, owned, data, lone, registrar, now, issued>>

\* a directSwitchToScene that swallows the rejection of onEnter
ResumeAfterEnter_SwallowsRejection(c, ao) ==
  /\ calls[c].pc = "awaitEnter"
  /\ state' = SetState(state, calls[c].newScene, "active")
  /\ events' = <<Resolve(c, calls[c].newScene)>>
  /\ calls' = [calls EXCEPT ![c] = NoCall]
  /\ UNCHANGED <<scenes, currentScene, previousScene, activeTransition,
                 lastUpdateTime, enableTransitions, owned, data, lone, registrar, now, issued>>

\* directSwitchToScene after await newScene.onEnter() (line 105)
ResumeAfterEnter(c, ao) ==
  /\ calls[c].pc = "awaitEnter"
  /\ IF ao = "rejected"
       THEN /\ events' = <<Reject(c, calls[c].newScene, "hook")>>
            /\ UNCHANGED state
       ELSE /\ state' = SetState(state, calls[c].newScene, "active")
            /\ events' = <<Resolve(c, calls[c].newScene)>>
  /\ calls' = [calls EXCEPT ![c] = NoCall]
  /\ UNCHANGED <<scenes, currentScene, previousScene, activeTransition,
                 lastUpdateTime, enableTransitions, owned, data, lone, registrar, now, issued>>

\* -------------------------------------------------------------------- update

\* update, lines 131-132: deltaTime ?? (now - this.lastUpdateTime)
EffectiveDelta(deltaTime) ==
  IF deltaTime = Undefined THEN now - lastUpdateTime ELSE deltaTime

\* an update that settles the new scene and forgets the previous one
SettleStates_ForgetsPrevious(st, progress) ==
  IF AtLeastOne(progress) /\ currentScene # Null
    THEN SetState(st, currentScene, "active")
    ELSE st

\* update, lines 139-144: the state flips when the reported progress is >= 1
\* and there is a current scene
SettleStates(st, progress) ==
  IF AtLeastOne(progress) /\ currentScene # Null
    THEN LET st1 == SetState(st, currentScene, "active")
         IN IF previousScene # Null THEN SetState(st1, previousScene, "inactive") ELSE st1
    ELSE st

\* an update that dispatches the tick before it advances the transition
Update_DispatchFirst(deltaTime) ==
  LET dt == EffectiveDelta(deltaTime)
      t == activeTransition
      completes == t.ref /\ UpdateCompletes(t, now)
      st1 == IF t.ref THEN SettleStates(state, UpdateProgress(t, now)) ELSE state
      ev1 == IF completes /\ t.call # 0 THEN <<Resolve(t.call, calls[t.call].newScene)>> ELSE <<>>
      ev2 == IF currentScene # Null /\ IsActive(state, currentScene)
               THEN <<Hook("onUpdate", currentScene, "returns", dt)>> ELSE <<>>
  IN /\ lastUpdateTime' = now
     /\ activeTransition' = IF completes THEN OnComplete(Complete(t)) ELSE t
     /\ calls' = IF completes /\ t.call # 0 THEN [calls EXCEPT ![t.call] = NoCall] ELSE calls
     /\ state' = st1
     /\ events' = ev2 \o ev1
     /\ UNCHANGED <<scenes, currentScene, previousScene, enableTransitions, owned, data, lone, registrar, now, issued>>

\* an update that also ticks a paused scene
Update_TicksPaused(deltaTime) ==
  LET dt == EffectiveDelta(deltaTime)
      t == activeTransition
      completes == t.ref /\ UpdateCompletes(t, now)
      st1 == IF t.ref THEN SettleStates(state, UpdateProgress(t, now)) ELSE state
      ev1 == IF completes /\ t.call # 0 THEN <<Resolve(t.call, calls[t.call].newScene)>> ELSE <<>>
      ev2 == IF currentScene # Null /\ (IsActive(st1, currentScene) \/ IsPaused(st1, currentScene))
               THEN <<Hook("onUpdate", currentScene, "returns", dt)>> ELSE <<>>
  IN /\ lastUpdateTime' = now
     /\ activeTransition' = IF completes THEN OnComplete(Complete(t)) ELSE t
     /\ calls' = IF completes /\ t.call # 0 THEN [calls EXCEPT ![t.call] = NoCall] ELSE calls
     /\ state' = st1
     /\ events' = ev1 \o ev2
     /\ UNCHANGED <<scenes, currentScene, previousScene, enableTransitions, owned, data, lone, registrar, now, issued>>

\* update(deltaTime?)
Update(deltaTime) ==
  LET dt == EffectiveDelta(deltaTime)
      t == activeTransition
      completes == t.ref /\ UpdateCompletes(t, now)
      st1 == IF t.ref THEN SettleStates(state, UpdateProgress(t, now)) ELSE state
      ev1 == IF completes /\ t.call # 0 THEN <<Resolve(t.call, calls[t.call].newScene)>> ELSE <<>>
      ev2 == IF currentScene # Null /\ IsActive(st1, currentScene)
               THEN <<Hook("onUpdate", currentScene, "returns", dt)>> ELSE <<>>
  IN /\ lastUpdateTime' = now
     /\ activeTransition' = IF completes THEN OnComplete(Complete(t)) ELSE t
     /\ calls' = IF completes /\ t.call # 0 THEN [calls EXCEPT ![t.call] = NoCall] ELSE calls
     /\ state' = st1
     /\ events' = ev1 \o ev2
     /\ UNCHANGED <<scenes, currentScene, previousScene, enableTransitions, owned, data, lone, registrar, now, issued>>

\* ------------------------------------------------------------- scene data

\* scene.setData(key, value): this.data[key] = value
SetData(s, k, v) ==
  /\ data' = [data EXCEPT ![s][k] = v]
  /\ events' = <<>>
  /\ UNCHANGED <<scenes, currentScene, previousScene, activeTransition,
                 lastUpdateTime, enableTransitions, state, calls, owned, now, issued,
                 lone, registrar>>

\* scene.getData(key): this.data[key], undefined for a key not set
GetData(s, k) == data[s][k]

\* ------------------------------------------- a SceneTransition on its own

\* the fields of the manager, which a call on another object leaves alone
manager == <<scenes, currentScene, previousScene, activeTransition, lastUpdateTime,
             enableTransitions, state, calls, owned, now, issued>>

\* new SceneTransition(options) by the caller, the manager being idle
TransitionInit ==
  /\ scenes = [n \in Names |-> Null]
  /\ currentScene = Null
  /\ previousScene = Null
  /\ activeTransition = NoTransition
  /\ lastUpdateTime = 0
  /\ enableTransitions = FALSE
  /\ state = [s \in Insts |-> "inactive"]
  /\ calls = [c \in 1..MaxSwitches |-> NoCall]
  /\ owned = {}
  /\ now = 0
  /\ issued = 0
  /\ events = <<>>
  /\ data = [s \in Insts |-> [k \in DataKeys |-> Undefined]]
  /\ transition \in {NewTransition(d, f, 0) : d \in LoneDurations, f \in LoneEasings}
  /\ callback \in BOOLEAN
  /\ returned = <<0, 1>>
  /\ completions = 0
  /\ deactivations = 0
  /\ history = <<>>
  /\ registry = [t \in Types |-> Null]
  /\ created = NothingCreated

\* options.onComplete() as the caller of the transition sees it
OnCompleteCalled == Hook("onComplete", Null, "returns", 0)

\* transition.start()
TransitionStart ==
  /\ Len(history) < MaxOps
  /\ transition' = Start(transition, now)
  /\ history' = Append(history, "start")
  /\ events' = <<>>
  /\ UNCHANGED <<callback, returned, completions, deactivations>>
  /\ UNCHANGED <<manager, data, registrar>>

\* transition.update(): the eased progress is computed before complete()
\* runs, and returned after it
TransitionUpdate ==
  LET completes == UpdateCompletes(transition, now)
  IN /\ Len(history) < MaxOps
     /\ returned' = UpdateProgress(transition, now)
     /\ transition' = IF completes THEN Complete(transition) ELSE transition
     /\ completions' = IF completes /\ callback THEN completions + 1 ELSE completions
     /\ deactivations' =
          IF completes /\ ~transition'.isRunning THEN deactivations + 1 ELSE deactivations
     /\ events' = IF completes /\ callback THEN <<OnCompleteCalled>> ELSE <<>>
     /\ history' = Append(history, "update")
     /\ UNCHANGED callback
     /\ UNCHANGED <<manager, data, registrar>>

\* transition.complete(), called directly: no test of isRunning
TransitionComplete ==
  /\ Len(history) < MaxOps
  /\ transition' = Complete(transition)
  /\ completions' = IF callback THEN completions + 1 ELSE completions
  /\ deactivations' =
       IF transition.isRunning /\ ~transition'.isRunning
         THEN deactivations + 1 ELSE deactivations
  /\ events' = IF callback THEN <<OnCompleteCalled>> ELSE <<>>
  /\ history' = Append(history, "complete")
  /\ UNCHANGED <<callback, returned>>
  /\ UNCHANGED <<manager, data, registrar>>

\* ------------------------------------------------------------ SceneRegistry

\* new SceneRegistry() by the caller, the manager being idle
RegistryInit ==
  /\ scenes = [n \in Names |-> Null]
  /\ currentScene = Null
  /\ previousScene = Null
  /\ activeTransition = NoTransition
  /\ lastUpdateTime = 0
  /\ enableTransitions = FALSE
  /\ state = [s \in Insts |-> "inactive"]
  /\ calls = [c \in 1..MaxSwitches |-> NoCall]
  /\ owned = {}
  /\ now = 0
  /\ issued = 0
  /\ events = <<>>
  /\ data = [s \in Insts |-> [k \in DataKeys |-> Undefined]]
  /\ transition = NoTransition
  /\ callback = FALSE
  /\ returned = <<0, 1>>
  /\ completions = 0
  /\ deactivations = 0
  /\ history = <<>>
  /\ registry = [t \in Types |-> Null]
  /\ created = NothingCreated

\* the registry map read with a type that may be no key of it
RegistryGet(type) == IF type \in Types THEN registry[type] ELSE Null

\* `Scene type "${type}" is not registered.`, as the pieces of the template
NotRegistered(type) == <<"Scene type \"", type, "\" is not registered.">>

\* new constructor(name, ...args): a scene of that class, which keeps the
\* name and the further arguments it was constructed with
Construct(constructor, name, args) ==
  [class |-> constructor, name |-> name, args |-> args, state |-> "inactive"]

\* register(type, constructor): this.registry.set(type, constructor)
Register(type, constructor) ==
  /\ registry' = [registry EXCEPT ![type] = constructor]
  /\ events' = <<>>
  /\ UNCHANGED <<created, manager, data, lone>>

\* a create that drops the further arguments: new constructor(name)
Create_DropsArgs(type, name, args) ==
  LET constructor == RegistryGet(type)
  IN /\ created' =
          IF constructor = Null
            THEN [result |-> "throws", type |-> type, error |-> NotRegistered(type)]
            ELSE [result |-> "returns", type |-> type,
                  scene |-> Construct(constructor, name, <<>>)]
     /\ events' = <<>>
     /\ UNCHANGED <<registry, manager, data, lone>>

\* create(type, name, ...args)
Create(type, name, args) ==
  LET constructor == RegistryGet(type)
  IN /\ created' =
          IF constructor = Null
            THEN [result |-> "throws", type |-> type, error |-> NotRegistered(type)]
            ELSE [result |-> "returns", type |-> type,
                  scene |-> Construct(constructor, name, args)]
     /\ events' = <<>>
     /\ UNCHANGED <<registry, manager, data, lone>>

\* ------------------------------------------------------------- specifications

SwitchTo(n, o, xo, eo) ==
  \/ SwitchToNotFound(n)
  \/ SwitchToSame(n)
  \/ SwitchToTransition(n, o, xo, eo)
  \/ SwitchToDirect(n, o, xo, eo)

AnyName == Names \cup {GhostName}

Next ==
  \/ Tick
  \/ \E s \in owned : AddScene(s)
  \/ \E n \in AnyName : RemoveScene(n)
  \/ \E n \in AnyName : SwitchToNotFound(n)
  \/ \E n \in AnyName : SwitchToSame(n)
  \/ \E n \in AnyName, o \in OptionChoices, xo, eo \in HookOutcomes :
       SwitchToTransition(n, o, xo, eo)
  \/ \E n \in AnyName, o \in OptionChoices, xo, eo \in HookOutcomes :
       SwitchToDirect(n, o, xo, eo)
  \/ \E c \in 1..MaxSwitches, ao \in AwaitOutcomes, eo \in HookOutcomes :
       ResumeAfterExit(c, ao, eo)
  \/ \E c \in 1..MaxSwitches, ao \in AwaitOutcomes : ResumeAfterEnter(c, ao)
  \/ PauseCurrentScene
  \/ ResumeCurrentScene
  \/ \E d \in DeltaChoices : Update(d)

Spec == Init /\ [][Next]_vars

\* Sequential use: the caller awaits every switchTo before its next call, so
\* while a switchTo is pending only time, the update loop (update() per
\* frame) and the pending call's own continuation run.
SeqNext ==
  \/ Tick
  \/ NoPending /\ \E s \in owned : AddScene(s)
  \/ NoPending /\ \E n \in AnyName : RemoveScene(n)
  \/ NoPending /\ \E n \in AnyName : SwitchToNotFound(n)
  \/ NoPending /\ \E n \in AnyName : SwitchToSame(n)
  \/ NoPending /\ \E n \in AnyName, o \in OptionChoices, xo, eo \in HookOutcomes :
       SwitchToTransition(n, o, xo, eo)
  \/ NoPending /\ \E n \in AnyName, o \in OptionChoices, xo, eo \in HookOutcomes :
       SwitchToDirect(n, o, xo, eo)
  \/ \E c \in 1..MaxSwitches, ao \in AwaitOutcomes, eo \in HookOutcomes :
       ResumeAfterExit(c, ao, eo)
  \/ \E c \in 1..MaxSwitches, ao \in AwaitOutcomes : ResumeAfterEnter(c, ao)
  \/ NoPending /\ PauseCurrentScene
  \/ NoPending /\ ResumeCurrentScene
  \/ \E d \in DeltaChoices : Update(d)

SeqSpec == Init /\ [][SeqNext]_vars

\* The update loop keeps calling update() and the clock keeps advancing (up
\* to MaxTime): requestAnimationFrame schedules updateFrame again after
\* every frame (SceneManager.ts:159-166).
LiveSpec ==
  /\ SeqSpec
  /\ WF_vars(Tick)
  /\ WF_vars(\E d \in DeltaChoices : Update(d))

\* Any use of the manager, calls overlapping or not, with the update loop
\* running: update() keeps being called and the clock keeps advancing.
OverlapSpec ==
  /\ Spec
  /\ WF_vars(Tick)
  /\ WF_vars(\E d \in DeltaChoices : Update(d))

\* Sequential use with scenes whose hooks never throw and whose promises
\* never reject: every hook invocation returns, every await is fulfilled.
QuietNext ==
  \/ Tick
  \/ NoPending /\ \E s \in owned : AddScene(s)
  \/ NoPending /\ \E n \in AnyName : RemoveScene(n)
  \/ NoPending /\ \E n \in AnyName : SwitchToNotFound(n)
  \/ NoPending /\ \E n \in AnyName : SwitchToSame(n)
  \/ NoPending /\ \E n \in AnyName, o \in OptionChoices :
       SwitchToTransition(n, o, "returns", "returns")
  \/ NoPending /\ \E n \in AnyName, o \in OptionChoices :
       SwitchToDirect(n, o, "returns", "returns")
  \/ \E c \in 1..MaxSwitches : ResumeAfterExit(c, "fulfilled", "returns")
  \/ \E c \in 1..MaxSwitches : ResumeAfterEnter(c, "fulfilled")
  \/ NoPending /\ PauseCurrentScene
  \/ NoPending /\ ResumeCurrentScene
  \/ \E d \in DeltaChoices : Update(d)

QuietSpec == Init /\ [][QuietNext]_vars

\* the transitionOptions whose easing maps 0 to 0 and 1 to 1
EndFixingOptions == {o \in OptionChoices : FixesEnds(o.easing)}

\* Awaited switchTo calls with hooks that never throw and easings with
\* f(0) = 0 and f(1) = 1, where removeScene (a synchronous call) may also run
\* while a switchTo is pending, for instance from an event handler during a
\* transition.
RemovalNext ==
  \/ Tick
  \/ NoPending /\ \E s \in owned : AddScene(s)
  \/ \E n \in AnyName : RemoveScene(n)
  \/ NoPending /\ \E n \in AnyName : SwitchToNotFound(n)
  \/ NoPending /\ \E n \in AnyName : SwitchToSame(n)
  \/ NoPending /\ \E n \in AnyName, o \in EndFixingOptions :
       SwitchToTransition(n, o, "returns", "returns")
  \/ NoPending /\ \E n \in AnyName, o \in EndFixingOptions :
       SwitchToDirect(n, o, "returns", "returns")
  \/ \E c \in 1..MaxSwitches : ResumeAfterExit(c, "fulfilled", "returns")
  \/ \E c \in 1..MaxSwitches : ResumeAfterEnter(c, "fulfilled")
  \/ NoPending /\ PauseCurrentScene
  \/ NoPending /\ ResumeCurrentScene
  \/ \E d \in DeltaChoices : Update(d)

RemovalSpec == Init /\ [][RemovalNext]_vars

\* Sequential use of the manager by a caller that also stores data in its
\* scenes, at any moment.
DataNext ==
  \/ SeqNext
  \/ \E s \in owned, k \in DataKeys, v \in DataValues : SetData(s, k, v)

DataSpec == Init /\ [][DataNext]_vars

\* A SceneTransition the caller constructs and drives itself, as the tests
\* of SceneTransition do.
TransitionNext ==
  \/ Tick
  \/ TransitionStart
  \/ TransitionUpdate
  \/ TransitionComplete

TransitionSpec == TransitionInit /\ [][TransitionNext]_vars

\* A SceneRegistry the caller fills and creates scenes with.
AnyType == Types \cup {GhostType}

RegistryNext ==
  \/ \E type \in Types, constructor \in Ctors : Register(type, constructor)
  \/ \E type \in AnyType, name \in CreateNames, args \in CreateArgs :
       Create(type, name, args)

RegistrySpec == RegistryInit /\ [][RegistryNext]_vars

\* ---------------------------------------------------------------- the claims

\* C1 (under SeqSpec, transitions disabled): a direct switch from A to B
\* leaves A 'exiting' while A.onExit is awaited and invokes B.onEnter only in
\* a later step, after that await ended; B is not 'active' while its onEnter
\* is awaited; and in the step that resolves the switchTo promise B is
\* 'active', B is the current scene and A (the previous scene) is 'inactive'.
C1_DirectSwitchSequencing ==
  ~enableTransitions =>
    /\ \A c \in 1..MaxSwitches :
         calls[c].pc = "awaitExit" =>
           /\ currentScene # Null
           /\ previousScene = currentScene
           /\ state[currentScene] = "exiting"
    /\ InvokedIn(events, "onEnter") =>
         /\ ~InvokedIn(events, "onExit")
         /\ \A c \in 1..MaxSwitches : calls[c].pc # "awaitExit"
    /\ \A c \in 1..MaxSwitches :
         calls[c].pc = "awaitEnter" =>
           /\ currentScene = calls[c].newScene
           /\ state[calls[c].newScene] = "entering"
    /\ \A i \in 1..Len(events) :
         events[i].ev = "resolve" /\ events[i].n # 0 =>
           /\ currentScene = events[i].scene
           /\ state[events[i].scene] = "active"
           /\ previousScene # Null => state[previousScene] = "inactive"

\* a direct switch from a current scene has just resolved
C1_Witness ==
  /\ ~enableTransitions
  /\ previousScene # Null
  /\ currentScene # Null
  /\ events = <<Resolve(issued, currentScene)>>
  /\ issued > 0
  /\ state[previousScene] = "inactive"
  /\ state[currentScene] = "active"

\* what a switchTo step may not touch when it is a no-op
ManagerState == <<scenes, currentScene, previousScene, activeTransition, state, calls>>

\* C2: a switchTo of a name that is not registered rejects with 'not found',
\* invokes no hook and changes neither currentScene, previousScene,
\* activeTransition, the scenes map nor any scene's state, whatever the
\* manager is doing.
C2_UnknownSceneRejected ==
  [][\A n \in AnyName :
       (Lookup(n) = Null /\
        \E o \in OptionChoices, xo, eo \in HookOutcomes : SwitchTo(n, o, xo, eo))
       => /\ events' = <<Reject(0, Null, "notFound")>>
          /\ UNCHANGED ManagerState]_vars

\* an unknown name was just rejected while a transition is running
C2_Witness ==
  /\ events = <<Reject(0, Null, "notFound")>>
  /\ activeTransition.isRunning
  /\ currentScene # Null

\* C3: a switchTo of the scene that is already current resolves at once,
\* invokes no hook and changes nothing, whatever the state of that scene.
C3_SameSceneNoOp ==
  [][\A n \in AnyName :
       (Lookup(n) # Null /\ Lookup(n) = currentScene /\
        \E o \in OptionChoices, xo, eo \in HookOutcomes : SwitchTo(n, o, xo, eo))
       => /\ events' = <<Resolve(0, currentScene)>>
          /\ UNCHANGED ManagerState]_vars

\* the no-op switch was just made on a scene that is still 'entering'
C3_Witness ==
  /\ currentScene # Null
  /\ events = <<Resolve(0, currentScene)>>
  /\ state[currentScene] = "entering"

\* the easing function of transition t ends at 1
EndsAtOne(t) == AtLeastOne(Easing(t.easing, One))

\* switchTo call c is on the transition path, its transition is the active
\* one, its easing ends at 1 and the clock can still reach its end
C4_InTransition(c) ==
  /\ calls[c].pc = "awaitTransition"
  /\ activeTransition.ref
  /\ activeTransition.call = c
  /\ EndsAtOne(activeTransition)
  /\ activeTransition.startTime + EffectiveDuration(activeTransition) <= MaxTime

\* the step just taken resolved call c, with its scene current and 'active',
\* the previous scene (if any) 'inactive' and the transition cleared
C4_Completed(c) ==
  /\ ResolvedIn(events, c)
  /\ ~Pending(c)
  /\ ~activeTransition.ref
  /\ currentScene # Null
  /\ events[1] = Resolve(c, currentScene)
  /\ state[currentScene] = "active"
  /\ previousScene # Null => state[previousScene] = "inactive"

\* C4 (under LiveSpec: sequential use, update() keeps being called, the clock
\* advances): a transition-path switchTo whose easing ends at 1 is eventually
\* resolved by an update() call that leaves the new scene current and
\* 'active', the previous scene 'inactive' and activeTransition cleared;
\* and while the call is pending, only update() changes a scene's state.
C4_TransitionCompletes ==
  /\ \A c \in 1..MaxSwitches : C4_InTransition(c) ~> C4_Completed(c)
  /\ [][\A c \in 1..MaxSwitches :
          (calls[c].pc = "awaitTransition" /\ state' # state)
          => \E d \in DeltaChoices : Update(d)]_vars

\* a transition from a current scene was just completed by update()
C4_Witness ==
  /\ issued > 0
  /\ C4_Completed(issued)
  /\ previousScene # Null
  /\ InvokedOn(events, "onUpdate", currentScene)

\* the onUpdate invocations an update(deltaTime) call must make when the
\* current scene is active (at the moment `active` is taken): one, on the
\* current scene, with the effective delta; none otherwise
DispatchIs(es, active, deltaTime) ==
  Invocations(es, "onUpdate") =
    IF active
      THEN <<Hook("onUpdate", currentScene, "returns", EffectiveDelta(deltaTime))>>
      ELSE <<>>

\* C5 as stated: update(dt) invokes onUpdate(dt) once on the current scene
\* iff that scene is 'active' in the state update() is called in.
C5_DispatchOnStateAtCall ==
  [][\A d \in DeltaChoices :
       Update(d) =>
         DispatchIs(events', currentScene # Null /\ state[currentScene] = "active", d)]_vars

\* C5 amended: update(dt) invokes onUpdate(dt) once on the current scene, and
\* on no other scene, iff the current scene is 'active' once update() has
\* advanced the active transition (the state it returns in).
C5_DispatchOnStateAtDispatch ==
  [][\A d \in DeltaChoices :
       Update(d) =>
         DispatchIs(events', currentScene # Null /\ state'[currentScene] = "active", d)]_vars

\* the update() that completed a transition ticked the scene it activated
C5_Witness ==
  /\ Len(events) = 2
  /\ events[1].ev = "resolve"
  /\ events[2] = Hook("onUpdate", currentScene, "returns", 16)
  /\ state[currentScene] = "active"

\* C6: pauseCurrentScene() on an active current scene makes it 'paused' and
\* invokes onPause once; resumeCurrentScene() on a paused current scene makes
\* it 'active' and invokes onResume once; neither touches another scene.
C6_PauseResume ==
  [][/\ (PauseCurrentScene /\ currentScene # Null /\ state[currentScene] = "active")
        => /\ state' = [state EXCEPT ![currentScene] = "paused"]
           /\ events' = <<Hook("onPause", currentScene, "returns", 0)>>
     /\ (ResumeCurrentScene /\ currentScene # Null /\ state[currentScene] = "paused")
        => /\ state' = [state EXCEPT ![currentScene] = "active"]
           /\ events' = <<Hook("onResume", currentScene, "returns", 0)>>]_vars

\* a paused scene was just resumed
C6_Witness ==
  /\ currentScene # Null
  /\ events = <<Hook("onResume", currentScene, "returns", 0)>>
  /\ state[currentScene] = "active"

\* C7: removeScene of the name the current scene is registered under
\* unregisters it and sets currentScene to null, invokes no hook and leaves
\* every scene's state, previousScene and activeTransition alone; removeScene
\* of any other name leaves currentScene alone.
C7_RemoveCurrentScene ==
  [][\A n \in AnyName :
       RemoveScene(n) =>
         IF Lookup(n) # Null /\ Lookup(n) = currentScene
           THEN /\ currentScene' = Null
                /\ scenes'[n] = Null
                /\ events' = <<>>
                /\ UNCHANGED <<state, previousScene, activeTransition>>
           ELSE currentScene' = currentScene]_vars

\* the current scene was removed while active: it is still 'active', and
\* neither registered nor current
C7_Witness ==
  /\ currentScene = Null
  /\ events = <<>>
  /\ \E s \in Insts : state[s] = "active" /\ scenes[SceneName(s)] = Null

\* C8: whenever no switchTo is pending, currentScene is null or the scene
\* object registered under its own name.
C8_CurrentSceneRegistered ==
  NoPending => (currentScene = Null \/ scenes[SceneName(currentScene)] = currentScene)

\* C9: whenever no switchTo promise is pending the manager holds no
\* transition, and it never holds a transition that has completed.
C9_NoTransitionWhenIdle ==
  /\ NoPending => ~activeTransition.ref
  /\ activeTransition.ref => ~activeTransition.done

\* C10: while a switchTo is pending, another switchTo (to a registered scene
\* other than the current one) changes no scene's state and invokes no hook.
C10_SwitchesSerialized ==
  [][\A n \in AnyName, o \in OptionChoices, xo, eo \in HookOutcomes :
       (~NoPending /\ (SwitchToTransition(n, o, xo, eo) \/ SwitchToDirect(n, o, xo, eo)))
       => (state' = state /\ NoHookIn(events'))]_vars

\* the steps of the scene lifecycle:
\* inactive -> entering -> active -> {exiting -> inactive | paused -> active}
LegalSteps ==
  {<<"inactive", "entering">>, <<"entering", "active">>, <<"active", "exiting">>,
   <<"exiting", "inactive">>, <<"active", "paused">>, <<"paused", "active">>}

\* C11 (under SeqSpec: every call awaited): every change of a scene's state
\* made by a step of the manager is one of the six steps of the lifecycle.
C11_LegalStateSteps ==
  [][\A s \in Insts :
       state'[s] # state[s] => <<state[s], state'[s]>> \in LegalSteps]_vars

\* C12: when onExit or onEnter throws in a transition-path switchTo, the
\* call's promise is not rejected, and the call goes on as if the hook had
\* returned: the new scene becomes current, the transition is started and
\* the call stays pending until update() completes the transition.
C12_TransitionHookFailureIgnored ==
  [][\A n \in AnyName, o \in OptionChoices, xo, eo \in HookOutcomes :
       (SwitchToTransition(n, o, xo, eo) /\ (xo = "throws" \/ eo = "throws"))
       => /\ \A i \in 1..Len(events') : events'[i].ev # "reject"
          /\ currentScene' = Lookup(n)
          /\ activeTransition'.isRunning
          /\ calls'[issued'].pc = "awaitTransition"]_vars

\* a step of a direct-path switchTo in which the old scene's onExit throws
\* or its awaited result rejects
ExitFails ==
  \/ \E n \in AnyName, o \in OptionChoices, eo \in HookOutcomes :
       SwitchToDirect(n, o, "throws", eo)
  \/ \E c \in 1..MaxSwitches, eo \in HookOutcomes : ResumeAfterExit(c, "rejected", eo)

\* a step of a direct-path switchTo in which the new scene's onEnter throws
\* or its awaited result rejects
EnterFails ==
  \/ \E n \in AnyName, o \in OptionChoices, xo \in HookOutcomes :
       SwitchToDirect(n, o, xo, "throws")
  \/ \E c \in 1..MaxSwitches : ResumeAfterExit(c, "fulfilled", "throws")
  \/ \E c \in 1..MaxSwitches : ResumeAfterEnter(c, "rejected")

\* the events es end with the rejection of a switchTo promise by a hook's error
RejectedByHook(es) ==
  /\ es # <<>>
  /\ es[Len(es)].ev = "reject"
  /\ es[Len(es)].info = "hook"
\* the scene the rejected switchTo was to switch to
RejectedTarget(es) == es[Len(es)].scene

StartedOnce(h) ==
  /\ h # <<>>
  /\ h[1] = "start"
  /\ \A i \in 2..Len(h) : h[i] = "update"

\* C14 (under TransitionSpec): a transition with an onComplete that is
\* started once and then only updated invokes onComplete at most once, in
\* the first update() that sees the elapsed time reach the duration update()
\* divides by (options.duration || 1000); every later update() returns 1,
\* invokes nothing and leaves isActive() false.
C14_CompletesOnceUnderUpdate ==
  [][(callback /\ StartedOnce(history) /\ TransitionUpdate)
       => /\ completions' <= 1
          /\ (completions' = completions + 1)
               <=> (completions = 0 /\
                    now - transition.startTime >= EffectiveDuration(transition))
          /\ completions' = completions + 1 => events' = <<OnCompleteCalled>>
          /\ completions = 1
               => /\ returned' = One
                  /\ events' = <<>>
                  /\ ~transition'.isRunning]_vars

\* update() was called again in the millisecond the transition completed in:
\* the two calls made one onComplete
C14_Witness ==
  /\ callback
  /\ StartedOnce(history)
  /\ completions = 1
  /\ now = transition.startTime + EffectiveDuration(transition)
  /\ events = <<>>
  /\ returned = One
  /\ ~transition.isRunning

\* C15 (under TransitionSpec): over any sequence of start(), update() and
\* complete() calls a transition goes inactive at most once and invokes its
\* onComplete at most once.
C15_CompletesOnceEver ==
  /\ deactivations <= 1
  /\ completions <= 1

\* C16: when a transition-path switchTo that was given an onComplete in its
\* options completes, that onComplete is invoked in the update() that
\* resolves the call.
C16_CallerOnCompleteInvoked ==
  [][\A c \in 1..MaxSwitches :
       (calls[c].pc = "awaitTransition" /\ calls[c].onComplete /\ ResolvedIn(events', c))
       => Invocations(events', "onComplete") = <<OnCompleteCalled>>]_vars

\* C17: addScene(s) adds the name of s to the names getScenes() returns,
\* removeScene(n) takes n out of them (also when n is absent, or was added
\* more than once), no other call changes them, and hasScene(n) is true
\* exactly for the names getScenes() returns.
C17_RegisteredNames ==
  [][/\ \A s \in owned : AddScene(s) => GetScenes' = GetScenes \cup {SceneName(s)}
     /\ \A n \in AnyName : RemoveScene(n) => GetScenes' = GetScenes \ {n}
     /\ GetScenes' # GetScenes
          => \/ \E s \in owned : AddScene(s)
             \/ \E n \in AnyName : RemoveScene(n)
     /\ \A n \in AnyName : HasScene(n)' <=> n \in GetScenes']_vars

\* scene a was added, switched to and removed again, scene b is registered
C17_Witness ==
  /\ GetScenes = {"b"}
  /\ ~HasScene("a")
  /\ HasScene("b")
  /\ state["a1"] = "active"
  /\ previousScene = "b1"

SwitchesScene ==
  \E n \in AnyName, o \in OptionChoices, xo, eo \in HookOutcomes :
    SwitchToTransition(n, o, xo, eo) \/ SwitchToDirect(n, o, xo, eo)

\* C19 (under SeqSpec: every switchTo awaited): a switchTo of a registered
\* scene other than the current one records the scene that is current at
\* the call as previousScene; nothing else changes previousScene, neither a
\* step of the pending switch nor pause, resume, update, addScene or
\* removeScene; so when the call resolves, with the new scene current,
\* previousScene is still the scene that was current at the call.
C19_PreviousSceneTracking ==
  [][/\ SwitchesScene => previousScene' = currentScene
     /\ previousScene' # previousScene => SwitchesScene
     /\ \A i \in 1..Len(events') :
          (events'[i].ev = "resolve" /\ events'[i].n # 0)
          => /\ currentScene' = events'[i].scene
             /\ previousScene' = previousScene
             /\ previousScene' # currentScene']_vars

\* the second switchTo, on the transition path, was just resolved by update()
C19_Witness ==
  /\ enableTransitions
  /\ issued = 2
  /\ currentScene # Null
  /\ events # <<>>
  /\ events[1] = Resolve(2, currentScene)
  /\ previousScene # Null
  /\ previousScene # currentScene

\* C20 (under RegistrySpec): register(type, K) makes K the constructor of
\* type, replacing an earlier one, and a registered type stays registered;
\* create(type, name, args) of a type that has no constructor throws
\* 'Scene type "<type>" is not registered.' and otherwise returns a scene
\* built by the constructor the type has, with that name and those further
\* arguments; create never changes the registry.
C20_RegistryCreate ==
  [][/\ \A type \in Types, constructor \in Ctors :
          Register(type, constructor)
          => registry' = [registry EXCEPT ![type] = constructor]
     /\ \A type \in Types : registry[type] # Null => registry'[type] # Null
     /\ \A type \in AnyType, name \in CreateNames, args \in CreateArgs :
          Create(type, name, args)
          => /\ registry' = registry
             /\ IF RegistryGet(type) = Null
                  THEN /\ created'.result = "throws"
                       /\ created'.error = <<"Scene type \"", type, "\" is not registered.">>
                  ELSE /\ created'.result = "returns"
                       /\ created'.scene.class = registry[type]
                       /\ created'.scene.name = name
                       /\ created'.scene.args = args]_vars

\* a scene was created with an extra argument from a constructor that has
\* since been replaced under its type
C20_Witness ==
  /\ created.result = "returns"
  /\ created.type = "mock"
  /\ created.scene = Construct("MockScene", "testScene", <<"extraData">>)
  /\ registry["mock"] = "GameScene"

\* the step just taken started a transition for the switchTo call it made,
\* which now waits for update() to complete it
StartedTransition ==
  /\ calls'[issued'].pc = "awaitTransition"
  /\ activeTransition'.ref
  /\ activeTransition'.isRunning
  /\ activeTransition'.call = issued'
  /\ activeTransition'.startTime = now

\* the step just taken left the manager's transition alone and suspended the
\* switchTo call it made at the await of a hook
AwaitsHook ==
  /\ calls'[issued'].pc \in {"awaitExit", "awaitEnter"}
  /\ activeTransition' = activeTransition

\* C21: a switchTo of a registered scene other than the current one (its
\* hooks returning) starts a transition exactly when enableTransitions is
\* true and there is a current scene or transitionOptions were passed, and
\* otherwise awaits the hooks directly and touches no transition; a call on
\* the direct path is resolved, with its scene 'active', by its own
\* continuation and by no update(); and a manager with enableTransitions
\* false never holds a transition.
C21_PathSelection ==
  /\ [](~enableTransitions => ~activeTransition.ref)
  /\ [][/\ \A n \in AnyName, o \in OptionChoices :
            ((SwitchToTransition(n, o, "returns", "returns")
              \/ SwitchToDirect(n, o, "returns", "returns")))
            => IF enableTransitions /\ (currentScene # Null \/ o.given)
                 THEN StartedTransition
                 ELSE AwaitsHook
        /\ \A c \in 1..MaxSwitches :
            (calls[c].pc = "awaitEnter" /\ ResolvedIn(events', c))
            => /\ \E ao \in AwaitOutcomes : ResumeAfterEnter(c, ao)
               /\ state'[calls[c].newScene] = "active"
               /\ lastUpdateTime' = lastUpdateTime]_vars

\* the first switchTo of a manager with transitions enabled, made without
\* options, was just resolved with no transition anywhere
C21_Witness ==
  /\ enableTransitions
  /\ issued = 1
  /\ currentScene # Null
  /\ previousScene = Null
  /\ events = <<Resolve(1, currentScene)>>
  /\ state[currentScene] = "active"
  /\ ~activeTransition.ref

\* the hooks a transition-path switchTo away from scene old to scene new
\* invokes, in order, when they return
BothHooks(old, new) ==
  (IF old # Null THEN <<Hook("onExit", old, "returns", 0)>> ELSE <<>>)
    \o <<Hook("onEnter", new, "returns", 0)>>

\* C22: a transition-path switchTo does, within the call and in this order:
\* old scene 'exiting' and its onExit invoked, new scene 'entering' and its
\* onEnter invoked, currentScene set to the new scene, transition started at
\* the present time. The call is then suspended until update() completes
\* the transition, whatever the hooks returned. The order shows where a hook
\* throws: when onExit throws the new scene is untouched, and when either
\* hook throws currentScene is not reassigned and the transition not started.
C22_TransitionPathOrder ==
  [][\A n \in AnyName, o \in OptionChoices, xo, eo \in HookOutcomes :
       SwitchToTransition(n, o, xo, eo)
       => LET old == currentScene
              new == Lookup(n)
          IN CASE xo = "returns" /\ eo = "returns" ->
                    /\ events' = BothHooks(old, new)
                    /\ old # Null => state'[old] = "exiting"
                    /\ state'[new] = "entering"
                    /\ currentScene' = new
                    /\ StartedTransition
               [] xo = "throws" ->
                    /\ events' = <<Hook("onExit", old, "throws", 0),
                                   Reject(issued', new, "hook")>>
                    /\ state'[old] = "exiting"
                    /\ state'[new] = state[new]
                    /\ currentScene' = old
                    /\ ~activeTransition'.isRunning
               [] xo = "returns" /\ eo = "throws" ->
                    /\ Len(events') = (IF old # Null THEN 3 ELSE 2)
                    /\ events'[Len(events') - 1] = Hook("onEnter", new, "throws", 0)
                    /\ old # Null => events'[1] = Hook("onExit", old, "returns", 0)
                    /\ old # Null => state'[old] = "exiting"
                    /\ state'[new] = "entering"
                    /\ currentScene' = old
                    /\ ~activeTransition'.isRunning]_vars

\* a transition-path switchTo away from a current scene has just returned
\* its promise, half a second into the run
C22_Witness ==
  /\ issued = 2
  /\ calls[2].pc = "awaitTransition"
  /\ currentScene # Null
  /\ previousScene # Null
  /\ events = BothHooks(previousScene, currentScene)
  /\ state[previousScene] = "exiting"
  /\ state[currentScene] = "entering"
  /\ activeTransition.isRunning
  /\ activeTransition.startTime = now
  /\ now > 0

\* C23 (under SeqSpec: no other call is made while the switchTo is pending,
\* but for the update loop): while a transition-path switchTo is pending,
\* the only step that resolves it (or ends it in any way) is an update()
\* whose transition is the call's own and has raw progress elapsed/duration
\* >= 1, the duration being options.duration || 1000; and as long as the new
\* scene is 'entering', every step other than update() leaves it 'entering'
\* and the call pending.
C23_TransitionGating ==
  [][\A c \in 1..MaxSwitches :
       calls[c].pc = "awaitTransition"
       => /\ (ResolvedIn(events', c) \/ calls'[c] # calls[c])
               => /\ \E d \in DeltaChoices : Update(d)
                  /\ activeTransition.call = c
                  /\ activeTransition.isRunning
                  /\ now - activeTransition.startTime
                        >= EffectiveDuration(activeTransition)
                  /\ events'[1] = Resolve(c, calls[c].newScene)
          /\ (state[calls[c].newScene] = "entering"
               /\ ~(\E d \in DeltaChoices : Update(d)))
               => /\ state'[calls[c].newScene] = "entering"
                  /\ calls'[c] = calls[c]]_vars

\* update() ran half way through a transition: the call is still pending
\* and the new scene still 'entering'
C23_Witness ==
  /\ issued = 2
  /\ calls[2].pc = "awaitTransition"
  /\ activeTransition.call = 2
  /\ activeTransition.startTime = 0
  /\ lastUpdateTime = 500
  /\ now = 500
  /\ state[calls[2].newScene] = "entering"

\* a second transition-path switchTo was made while the transition of the
\* first was still active, and the clock can still reach the end of the
\* second transition
C24_Overlapped ==
  /\ calls[1].pc = "awaitTransition"
  /\ calls[2].pc = "awaitTransition"
  /\ activeTransition.call = 2
  /\ activeTransition.startTime + EffectiveDuration(activeTransition) <= MaxTime

\* C24 (under OverlapSpec: the update loop keeps running): when a second
\* transition-path switchTo is made while the first one's transition is
\* still active, the first switchTo's promise is eventually resolved.
C24_OverlappedResolves == C24_Overlapped ~> ~Pending(1)

\* what pause and resume never touch: the transition, the current and the
\* previous scene, the scenes map, the pending calls, and the state of
\* every scene but the current one
PauseResumeFrame ==
  /\ UNCHANGED <<activeTransition, currentScene, previousScene, scenes, calls>>
  /\ \A s \in Insts : s # currentScene => state'[s] = state[s]

\* C25: pauseCurrentScene() without a current scene, or with one that is not
\* 'active', changes no scene's state and invokes no hook, and so does
\* resumeCurrentScene() without a current scene or with one that is not
\* 'paused'; and every pause and resume leaves activeTransition,
\* currentScene, previousScene, the scenes map and the state of every other
\* scene as they are.
C25_PauseResumeFrame ==
  [][/\ PauseCurrentScene
        => /\ PauseResumeFrame
           /\ (currentScene = Null \/ state[currentScene] # "active")
                => (state' = state /\ events' = <<>>)
     /\ ResumeCurrentScene
        => /\ PauseResumeFrame
           /\ (currentScene = Null \/ state[currentScene] # "paused")
                => (state' = state /\ events' = <<>>)]_vars

\* the current scene was just paused while its transition is still running
C25_Witness ==
  /\ currentScene # Null
  /\ events = <<Hook("onPause", currentScene, "returns", 0)>>
  /\ state[currentScene] = "paused"
  /\ activeTransition.isRunning
  /\ previousScene # Null
  /\ state[previousScene] = "inactive"

\* C26 (under TransitionSpec, linear easing, D the duration update()
\* divides by, options.duration || 1000): update() on a running transition
\* started at t0 returns e/D at time t0 + e and leaves it running when
\* e < D, and returns exactly 1 and stops it when e >= D; update() on a
\* transition that was never started, or has completed, returns 1 and
\* leaves it stopped.
C26_LinearTiming ==
  [][(transition.easing = "undefined" /\ TransitionUpdate)
       => LET e == now - transition.startTime
              D == EffectiveDuration(transition)
          IN IF transition.isRunning
               THEN IF e < D
                      THEN /\ IsRatio(returned', e, D)
                           /\ ~AtLeastOne(returned')
                           /\ transition'.isRunning
                      ELSE /\ returned' = One
                           /\ ~transition'.isRunning
               ELSE /\ returned' = One
                    /\ ~transition'.isRunning]_vars

\* update() just returned 1/2, half way through a transition of 1000 ms
C26_Witness ==
  /\ transition.easing = "undefined"
  /\ transition.isRunning
  /\ EffectiveDuration(transition) = 1000
  /\ now = transition.startTime + 500
  /\ IsRatio(returned, 1, 2)
  /\ history # <<>>
  /\ history[Len(history)] = "update"

\* the scenes the manager holds
Registered == {s \in Insts : scenes[SceneName(s)] = s}

\* C27 (under QuietSpec: sequential use, no hook throws): whenever no
\* switchTo is pending, every registered scene whose state is 'active' or
\* 'paused' is the current scene.
C27_ActiveIsCurrent ==
  NoPending
    => \A s \in Registered :
         state[s] \in {"active", "paused"} => s = currentScene

\* call c is suspended at await onExit() of a scene that removeScene has
\* since made no longer current, and no other switchTo is pending
RemovedWhileExiting(c) ==
  /\ calls[c].pc = "awaitExit"
  /\ currentScene = Null
  /\ \A d \in 1..MaxSwitches : d # c => ~Pending(d)

\* C28 (under Spec): when the current scene is removed while a direct
\* switchTo awaits its onExit, and onExit is fulfilled, the switch goes on
\* without error: the promise is not rejected, the new scene becomes the
\* current scene and its onEnter is invoked.
C28_SwitchSurvivesRemoval ==
  [][\A c \in 1..MaxSwitches :
       (RemovedWhileExiting(c) /\ ResumeAfterExit(c, "fulfilled", "returns"))
         => /\ ~InvokedIn(events', "reject")
            /\ currentScene' = calls[c].newScene
            /\ InvokedIn(events', "onEnter")]_vars

\* the transition in flight, if any, was started, has an easing with
\* f(0) = 0 and f(1) = 1, and is the one of the pending switchTo that
\* brought the current scene in
OwnTransitionInFlight ==
  LET t == activeTransition
  IN t.ref => /\ t.isRunning
              /\ FixesEnds(t.easing)
              /\ t.call # 0
              /\ Pending(t.call)
              /\ calls[t.call].newScene = currentScene

\* C29 (under Spec): update() leaves a paused current scene paused, for
\* every easing with f(0) = 0 and f(1) = 1.
C29_PausedSurvivesUpdate ==
  [][\A d \in DeltaChoices :
       (/\ Update(d)
        /\ currentScene # Null
        /\ IsPaused(state, currentScene)
        /\ OwnTransitionInFlight)
         => IsPaused(state', currentScene)]_vars

\* C30 (under QuietSpec: hooks do not throw): while a transition with
\* f(0) = 0 and f(1) = 1 is in flight, the current scene is neither 'active'
\* nor 'paused'.
C30_NotActiveInFlight ==
  (/\ activeTransition.ref
   /\ FixesEnds(activeTransition.easing)
   /\ currentScene # Null)
    => state[currentScene] \notin {"active", "paused"}


\* C31 (under RemovalSpec: hooks do not throw, easings have f(1) = 1,
\* removeScene may run while a transition is in flight): whenever
\* activeTransition is null and no switchTo is pending, no registered scene
\* is in state 'entering' or 'exiting'.
C31_NoneStranded ==
  (~activeTransition.ref /\ NoPending)
    => \A s \in Registered : state[s] \notin {"entering", "exiting"}


\* a transition started by a switchTo that is still pending
TransitionInFlight ==
  /\ activeTransition.ref
  /\ activeTransition.isRunning
  /\ activeTransition.call # 0
  /\ calls[activeTransition.call].pc = "awaitTransition"

\* C32 (under Spec): update(dt) advances the transition before it dispatches
\* the tick. The update() call in which a transition completes and the
\* current scene becomes 'active' invokes onUpdate(dt) on that scene, after
\* the promise is resolved; and no update() call made while a transition is
\* in flight invokes onUpdate on the outgoing scene (previousScene).
C32_AdvanceThenDispatch ==
  [][\A d \in DeltaChoices :
       (Update(d) /\ TransitionInFlight)
         => /\ (/\ UpdateCompletes(activeTransition, now)
                /\ currentScene # Null
                /\ ~IsActive(state, currentScene)
                /\ IsActive(state', currentScene))
                 => events' = <<Resolve(activeTransition.call,
                                        calls[activeTransition.call].newScene),
                                Hook("onUpdate", currentScene, "returns",
                                     EffectiveDelta(d))>>
            /\ (previousScene # Null /\ previousScene # currentScene)
                 => ~InvokedOn(events', "onUpdate", previousScene)]_vars

\* update() has just completed a transition from one scene to another: the
\* promise is resolved, the outgoing scene is 'inactive', and the incoming
\* scene is 'active' and was ticked in that call
C32_Witness ==
  /\ Len(events) = 2
  /\ events[1].ev = "resolve"
  /\ events[2].ev = "onUpdate"
  /\ events[2].scene = currentScene
  /\ currentScene # Null
  /\ IsActive(state, currentScene)
  /\ previousScene \notin {Null, currentScene}
  /\ state[previousScene] = "inactive"
  /\ ~activeTransition.ref
  /\ lastUpdateTime = now

=============================================================================
